---- MODULE Spec2Model ----
(***************************************************************************)
(* Model of the air-quality ingestion pipeline of fetch_aqicn.py: one run  *)
(* of main() requests every configured city, normalises the responses,     *)
(* overwrites the snapshot data/aqi_latest.csv, merges the batch into the  *)
(* log data/aqi_log.csv and writes data/last_urls.txt.  Files persist from *)
(* run to run; everything else is rebuilt by each run.                     *)
(*                                                                         *)
(* Values.  A numeric JSON value is a record [kind, v]: None, NaN, Num(x)  *)
(* or NonNumeric (a string such as "-" that float() rejects).  A number in *)
(* a CSV file is Num(x) or Empty (the empty field).  Text values are       *)
(* strings; PyNone, PyNaN and NaT stand for the in-memory None, float nan  *)
(* and pandas NaT, which are not text.  Coordinates are in hundredths of a *)
(* degree.  The pollutant columns pm25..nh3 are carried by no operation    *)
(* examined here and are left out of the rows.                             *)
(***************************************************************************)
EXTENDS Integers, Sequences, FiniteSets, TLC

\* Number of runs of main() a behaviour may hold.
MaxRuns == 3

\* SpecBand hands aqi_band the index values -MaxIndex..MaxIndex.
MaxIndex == 320

None == [kind |-> "none", v |-> 0]
NaN == [kind |-> "nan", v |-> 0]
NonNumeric == [kind |-> "str", v |-> 0]
Empty == [kind |-> "empty", v |-> 0]
Num(x) == [kind |-> "num", v |-> x]

PyNone == "<None>"
PyNaN == "<nan>"
NaT == "<NaT>"

\* pd.isna / pd.notna on a numeric scalar, and on a text scalar.
isna(x) == x.kind \in {"none", "nan"}
notna(x) == ~isna(x)
isna_text(s) == s \in {PyNone, PyNaN, NaT}

(***************************************************************************)
(* Configuration: os.getenv("CITIES") as the list of its ";"-separated     *)
(* items already split into name, lat, lon; << >> is an unset or empty     *)
(* variable.  Malformed items raise before main() is entered.              *)
(***************************************************************************)
Item(n, la, lo) == [name |-> n, lat |-> la, lon |-> lo]

EnvChoices ==
    { << >>,
      << Item("Perth", -3195, 11586), Item("Sydney", -3387, 15121),
         Item("Perth", -3200, 11590) >>,
      << Item("", -3190, 11580), Item("Perth", -3195, 11586) >> }

\* out[name] = (lat, lon) on a dict: a known name keeps its place and takes
\* the new value, a new name goes to the end.
dict_set(out, item) ==
    IF \E k \in 1..Len(out) : out[k].name = item.name
    THEN [k \in 1..Len(out) |-> IF out[k].name = item.name THEN item ELSE out[k]]
    ELSE Append(out, item)

RECURSIVE parse_items(_, _)
parse_items(items, out) ==
    IF items = << >> THEN out
    ELSE parse_items(Tail(items), dict_set(out, Head(items)))

parse_cities(env_str) ==
    IF env_str = << >> THEN << Item("Perth", -3195, 11586) >>
    ELSE parse_items(env_str, << >>)

BandUnknown == << "Unknown", "n/a" >>

\* float(aqi) raises ValueError for a non-numeric string.
aqi_band_raises(aqi) == ~isna(aqi) /\ aqi.kind = "str"

aqi_band_exclusive(aqi) ==
    IF isna(aqi) THEN BandUnknown
    ELSE IF aqi.v < 50 THEN << "Good", "0-50" >>
    ELSE IF aqi.v < 100 THEN << "Moderate", "51-100" >>
    ELSE IF aqi.v < 150 THEN << "Unhealthy for Sensitive Groups", "101-150" >>
    ELSE IF aqi.v < 200 THEN << "Unhealthy", "151-200" >>
    ELSE IF aqi.v < 300 THEN << "Very Unhealthy", "201-300" >>
    ELSE << "Hazardous", "300+" >>

aqi_band(aqi) ==
    IF isna(aqi) THEN BandUnknown
    ELSE IF aqi.v <= 50 THEN << "Good", "0-50" >>
    ELSE IF aqi.v <= 100 THEN << "Moderate", "51-100" >>
    ELSE IF aqi.v <= 150 THEN << "Unhealthy for Sensitive Groups", "101-150" >>
    ELSE IF aqi.v <= 200 THEN << "Unhealthy", "151-200" >>
    ELSE IF aqi.v <= 300 THEN << "Very Unhealthy", "201-300" >>
    ELSE << "Hazardous", "300+" >>

(***************************************************************************)
(* Responses.  FetchError is fetch_geo raising (network failure, timeout,  *)
(* HTTP error status); anything else is the decoded JSON body: status,     *)
(* data.aqi, data.time.s, data.city.geo (<< >> when absent or not a pair), *)
(* data.city.name and data.dominentpol.                                    *)
(***************************************************************************)
Js(st, a, s, g, n, d) ==
    [status |-> st, aqi |-> a, ts |-> s, geo |-> g, name |-> n, dominentpol |-> d]

FetchError == Js("FetchError", None, PyNone, << >>, PyNone, PyNone)

Responses ==
    { Js("error", None, PyNone, << >>, PyNone, PyNone),
      Js("ok", NonNumeric, "2025-09-04 11:00:00", << >>, "Perth", PyNone),
      Js("ok", Num(42), "2025-09-04 11:00:00", << >>, "Perth", "pm25"),
      Js("ok", Num(160), "2025-09-04 11:00:00", << Num(-3196), Num(11582) >>,
         "Perth", "pm25"),
      Js("ok", None, "2025-09-04 12:00:00", << None, Num(11582) >>, PyNone, PyNone),
      Js("ok", Num(42), "not a time", << >>, "Perth", "pm25") }

\* pd.to_datetime(ts, utc=True, errors="coerce")
to_datetime(ts) ==
    CASE ts = "2025-09-04 11:00:00" -> "2025-09-04 11:00:00+00:00"
      [] ts = "2025-09-04 12:00:00" -> "2025-09-04 12:00:00+00:00"
      [] OTHER -> NaT

\* The f-string URL of fetch_geo: the target's coordinates.
fetch_url(lat, lon) == << "geo", lat, lon >>

normalize_raises(j) == j.status = "ok" /\ aqi_band_raises(j.aqi)

\* normalize_record for a response with status "ok" that does not raise.
normalize_record(j, city_label) ==
    [ city |-> IF city_label # "" THEN city_label ELSE j.name,
      aqi |-> j.aqi,
      observed_at_utc |-> to_datetime(j.ts),
      lat |-> IF Len(j.geo) = 2 THEN j.geo[1] ELSE None,
      lon |-> IF Len(j.geo) = 2 THEN j.geo[2] ELSE None,
      station_name |-> j.name,
      dominentpol |-> j.dominentpol,
      aqi_category |-> aqi_band(j.aqi)[1],
      aqi_range |-> aqi_band(j.aqi)[2] ]

backfill_never(v, configured) == v

\* rec["lat"] if pd.notna(rec["lat"]) else lat
backfill(v, configured) == IF notna(v) THEN v ELSE Num(configured)

(***************************************************************************)
(* pandas: DataFrames and CSV files.  A DataFrame built from no records    *)
(* has no columns, and so has the file written from it.                    *)
(***************************************************************************)
NoFile == [exists |-> FALSE, columns |-> FALSE, rows |-> << >>]

from_records(recs) == [columns |-> recs # << >>, rows |-> recs]

\* The strings read_csv takes for a missing value (those that can occur here).
STR_NA_VALUES == {"", "n/a", "None", "nan", "NaN", "NA", "null"}

num_to_csv(x) == IF isna(x) THEN Empty ELSE x
text_to_csv(s) == IF isna_text(s) THEN "" ELSE s
num_read_csv(x) == IF x = Empty THEN NaN ELSE x
text_read_csv(s) == IF s \in STR_NA_VALUES THEN PyNaN ELSE s
date_read_csv(s) == IF s \in STR_NA_VALUES THEN NaT ELSE s
astype_str(s) == IF s = PyNone THEN "None" ELSE IF s = PyNaN THEN "nan" ELSE s

row_to_csv(r) ==
    [ city |-> text_to_csv(r.city),
      aqi |-> num_to_csv(r.aqi),
      observed_at_utc |-> text_to_csv(r.observed_at_utc),
      lat |-> num_to_csv(r.lat),
      lon |-> num_to_csv(r.lon),
      station_name |-> text_to_csv(r.station_name),
      dominentpol |-> text_to_csv(r.dominentpol),
      aqi_category |-> text_to_csv(r.aqi_category),
      aqi_range |-> text_to_csv(r.aqi_range) ]

row_read_csv(r) ==
    [ city |-> text_read_csv(r.city),
      aqi |-> num_read_csv(r.aqi),
      observed_at_utc |-> date_read_csv(r.observed_at_utc),
      lat |-> num_read_csv(r.lat),
      lon |-> num_read_csv(r.lon),
      station_name |-> text_read_csv(r.station_name),
      dominentpol |-> text_read_csv(r.dominentpol),
      aqi_category |-> text_read_csv(r.aqi_category),
      aqi_range |-> text_read_csv(r.aqi_range) ]

\* df_cat[cat_cols] = df_cat[cat_cols].astype(str)
row_cat(r) ==
    [r EXCEPT !.aqi_category = astype_str(@), !.aqi_range = astype_str(@),
              !.dominentpol = astype_str(@)]

to_csv(df) ==
    [ exists |-> TRUE, columns |-> df.columns,
      rows |-> [k \in 1..Len(df.rows) |-> row_to_csv(df.rows[k])] ]

\* pd.read_csv(..., parse_dates=["observed_at_utc"]) raises on a file that
\* has no columns.
read_csv_raises(f) == ~f.columns
read_csv(f) ==
    [ columns |-> TRUE,
      rows |-> [k \in 1..Len(f.rows) |-> row_read_csv(f.rows[k])] ]

\* df_cat[cat_cols] raises KeyError on a DataFrame without columns.
cat_cols_raises(df) == ~df.columns

\* Missing values compare equal to one another in drop_duplicates.
dup_cell(s) == IF isna_text(s) THEN "<missing>" ELSE s

subset_city_only(r) == << dup_cell(r.city) >>

\* subset=["city","observed_at_utc"]
subset(r) == << dup_cell(r.city), dup_cell(r.observed_at_utc) >>

RECURSIVE select_rows(_, _, _)
select_rows(rows, keep, k) ==
    IF k > Len(rows) THEN << >>
    ELSE IF k \in keep THEN << rows[k] >> \o select_rows(rows, keep, k + 1)
    ELSE select_rows(rows, keep, k + 1)

\* DataFrame.drop_duplicates(subset=...), keep="first" by default.
drop_duplicates(rows) ==
    select_rows(rows,
        {k \in 1..Len(rows) : \A j \in 1..(k - 1) : subset(rows[j]) # subset(rows[k])},
        1)

\* Lines 102-109: the log file written when one exists and nothing raises.
merge_log(logfile, df) ==
    to_csv([ columns |-> TRUE,
             rows |-> drop_duplicates(read_csv(logfile).rows
                          \o [k \in 1..Len(df.rows) |-> row_cat(df.rows[k])]) ])

VARIABLES
    CITIES,      \* the parsed configuration, in order
    pc,          \* where main() is: "fetch", "log", "urls", "done", "aborted"
    i,           \* position of the for loop in CITIES
    records,     \* the batch being collected
    urls,        \* the URLs collected
    responses,   \* what each request of this run was answered with, in order
    latest,      \* data/aqi_latest.csv
    logfile,     \* data/aqi_log.csv
    old_log,     \* data/aqi_log.csv as it was before this run's write
    last_urls,   \* data/last_urls.txt
    runs,        \* number of runs started
    app,         \* the dashboard: what its last script run loaded
    band_in,     \* SpecBand: the value given to aqi_band
    band_out     \* SpecBand: the result, << >> before the call

vars == << CITIES, pc, i, records, urls, responses, latest, logfile, old_log,
           last_urls, runs, app, band_in, band_out >>

bandvars == << band_in, band_out >>

\* The dashboard before its script has run.
NotRead == [df |-> "not read", warning |-> FALSE]
AppIdle == [latest |-> "not read", log |-> NotRead, stopped |-> FALSE]

Init ==
    /\ CITIES \in {parse_cities(e) : e \in EnvChoices}
    /\ pc = "fetch"
    /\ i = 1
    /\ records = << >>
    /\ urls = << >>
    /\ responses = << >>
    /\ latest = NoFile
    /\ logfile = NoFile
    /\ old_log = NoFile
    /\ last_urls = [exists |-> FALSE, lines |-> << >>]
    /\ runs = 1
    /\ app = AppIdle
    /\ band_in = None
    /\ band_out = << >>

next_target_retry(k, js) == IF js = FetchError THEN k ELSE k + 1

\* The for loop goes on to the next city whatever happened in its body.
next_target(k, js) == k + 1

\* Lines 80-92: one pass of the loop body for CITIES[i], answered with js.
FetchCity ==
    /\ pc = "fetch"
    /\ i <= Len(CITIES)
    /\ \E js \in Responses \cup {FetchError} :
         LET t == CITIES[i]
             rec == normalize_record(js, t.name)
         IN /\ responses' = Append(responses, [target |-> t, js |-> js])
            /\ urls' = IF js = FetchError THEN urls
                       ELSE Append(urls, fetch_url(t.lat, t.lon))
            /\ records' =
                 IF js = FetchError \/ js.status # "ok" \/ normalize_raises(js)
                 THEN records
                 ELSE Append(records,
                        [rec EXCEPT !.lat = backfill(rec.lat, t.lat),
                                    !.lon = backfill(rec.lon, t.lon)])
            /\ i' = next_target(i, js)
    /\ UNCHANGED << CITIES, pc, latest, logfile, old_log, last_urls, runs, app, bandvars >>

\* Lines 93-98: the snapshot is overwritten with the batch.
SaveLatest ==
    /\ pc = "fetch"
    /\ i > Len(CITIES)
    /\ latest' = to_csv(from_records(records))
    /\ pc' = "log"
    /\ UNCHANGED << CITIES, i, records, urls, responses, logfile, old_log,
                    last_urls, runs, app, bandvars >>

\* Line 111: there is no log yet, the batch is written as it is.
CreateLog ==
    /\ pc = "log"
    /\ ~logfile.exists
    /\ old_log' = logfile
    /\ logfile' = to_csv(from_records(records))
    /\ pc' = "urls"
    /\ UNCHANGED << CITIES, i, records, urls, responses, latest, last_urls, runs,
                    app, bandvars >>

\* Lines 102-109: the batch is merged into the log.
MergeLog ==
    /\ pc = "log"
    /\ logfile.exists
    /\ ~read_csv_raises(logfile)
    /\ ~cat_cols_raises(from_records(records))
    /\ old_log' = logfile
    /\ logfile' = merge_log(logfile, from_records(records))
    /\ pc' = "urls"
    /\ UNCHANGED << CITIES, i, records, urls, responses, latest, last_urls, runs,
                    app, bandvars >>

\* Lines 102 and 105 raise outside the try block: main() ends there.
MergeLogRaises ==
    /\ pc = "log"
    /\ logfile.exists
    /\ read_csv_raises(logfile) \/ cat_cols_raises(from_records(records))
    /\ pc' = "aborted"
    /\ UNCHANGED << CITIES, i, records, urls, responses, latest, logfile, old_log,
                    last_urls, runs, app, bandvars >>

write_lines_append(f, lines) == [exists |-> TRUE, lines |-> f.lines \o lines]

\* open(..., "w") and f.write("\n".join(urls)): the file holds these lines only.
write_lines(f, lines) == [exists |-> TRUE, lines |-> lines]

\* Lines 114-115.
SaveUrls ==
    /\ pc = "urls"
    /\ last_urls' = write_lines(last_urls, urls)
    /\ pc' = "done"
    /\ UNCHANGED << CITIES, i, records, urls, responses, latest, logfile, old_log,
                    runs, app, bandvars >>

\* The external trigger invokes main() again; the files are what is kept.
StartRun ==
    /\ pc \in {"done", "aborted"}
    /\ runs < MaxRuns
    /\ runs' = runs + 1
    /\ pc' = "fetch"
    /\ i' = 1
    /\ records' = << >>
    /\ urls' = << >>
    /\ responses' = << >>
    /\ UNCHANGED << CITIES, latest, logfile, old_log, last_urls, app, bandvars >>

(***************************************************************************)
(* The dashboard (app.py) reads the two files whenever its script runs.    *)
(* read_csv raises there as it does in the pipeline; the cache of          *)
(* st.cache_data holds nothing on the run modelled.                        *)
(***************************************************************************)
\* load_latest: the frame, or st.error and st.stop.
load_latest(f) ==
    IF f.exists /\ ~read_csv_raises(f) THEN "loaded"
    ELSE IF f.exists THEN "read failed"
    ELSE "missing"

\* load_log: the frame, or None after st.warning, or None without a file.
load_log(f) ==
    IF f.exists /\ ~read_csv_raises(f) THEN [df |-> "frame", warning |-> FALSE]
    ELSE IF f.exists THEN [df |-> "None", warning |-> TRUE]
    ELSE [df |-> "None", warning |-> FALSE]

\* Lines 37-38 of app.py: st.stop() in load_latest ends the script run.
LoadDashboard ==
    /\ LET a == load_latest(latest)
           b == load_log(logfile)
       IN app' = IF a # "loaded"
                 THEN [latest |-> a, log |-> NotRead, stopped |-> TRUE]
                 ELSE [latest |-> a, log |-> b, stopped |-> FALSE]
    /\ UNCHANGED << CITIES, pc, i, records, urls, responses, latest, logfile,
                    old_log, last_urls, runs, bandvars >>

Next ==
    \/ FetchCity
    \/ SaveLatest
    \/ CreateLog
    \/ MergeLog
    \/ MergeLogRaises
    \/ SaveUrls
    \/ StartRun

Spec == Init /\ [][Next]_vars

\* SpecApp: the pipeline, and the dashboard's script run at any moment.
NextApp ==
    \/ Next
    \/ LoadDashboard

SpecApp == Init /\ [][NextApp]_vars

(***************************************************************************)
(* SpecBand: aqi_band alone, applied to one index value drawn from the     *)
(* values its annotation admits (int | float | None, NaN included).        *)
(***************************************************************************)
BandInputs == {None, NaN} \cup {Num(x) : x \in (0 - MaxIndex)..MaxIndex}

InitBand ==
    /\ CITIES = parse_cities(<< >>)
    /\ pc = "band"
    /\ i = 1
    /\ records = << >>
    /\ urls = << >>
    /\ responses = << >>
    /\ latest = NoFile
    /\ logfile = NoFile
    /\ old_log = NoFile
    /\ last_urls = [exists |-> FALSE, lines |-> << >>]
    /\ runs = 1
    /\ app = AppIdle
    /\ band_in \in BandInputs
    /\ band_out = << >>

Classify ==
    /\ pc = "band"
    /\ band_out = << >>
    /\ band_out' = aqi_band(band_in)
    /\ UNCHANGED << CITIES, pc, i, records, urls, responses, latest, logfile,
                    old_log, last_urls, runs, app, band_in >>

NextBand == Classify

SpecBand == InitBand /\ [][NextBand]_vars

(***************************************************************************)
(* Properties.  A key of a file row is its (city, observed_at_utc) text.   *)
(***************************************************************************)
FileKey(r) == << r.city, r.observed_at_utc >>
FileKeys(f) == {FileKey(f.rows[k]) : k \in 1..Len(f.rows)}
FileRows(f) == {f.rows[k] : k \in 1..Len(f.rows)}

\* The batch of the run as a DataFrame, and as the rows the merge writes.
df == from_records(records)
BatchRow(k) == row_to_csv(row_cat(records[k]))
BatchKeys == {FileKey(BatchRow(k)) : k \in 1..Len(records)}

\* The run has just written the log through the merge of lines 102-109.
Merged == pc = "urls" /\ old_log.exists

\* Two file rows that a reader takes for the same data.
SameData(a, b) == row_read_csv(a) = row_read_csv(b)

\* C1: after a merge, for every batch record whose key was already in the
\* log, the log's row for that key carries the batch's data and not the
\* data of the old row.
C1_LastWriteWins ==
    Merged =>
        \A k \in 1..Len(records) :
            FileKey(BatchRow(k)) \in FileKeys(old_log) =>
                \A r \in FileRows(logfile) :
                    FileKey(r) = FileKey(BatchRow(k)) => SameData(r, BatchRow(k))

\* C2: a run that has written the log leaves in it every key the log held
\* before the run and every key of the run's batch.
C2_NoKeyLost ==
    pc \in {"urls", "done"} =>
        (FileKeys(old_log) \cup BatchKeys) \subseteq FileKeys(logfile)

C2_Witness ==
    /\ Merged
    /\ FileKeys(old_log) \cap BatchKeys # {}
    /\ FileKeys(old_log) \ BatchKeys # {}
    /\ BatchKeys \ FileKeys(old_log) # {}

\* C3: merging the batch into the log a second time gives the same log as
\* merging it once.
C3_MergeIdempotent ==
    (pc = "log" /\ logfile.exists /\ ~read_csv_raises(logfile) /\ ~cat_cols_raises(df)) =>
        merge_log(merge_log(logfile, df), df) = merge_log(logfile, df)

\* C4: the log never holds two rows with the same (city, observed_at) key.
C4_UniqueKeys ==
    \A j, k \in 1..Len(logfile.rows) :
        j # k => FileKey(logfile.rows[j]) # FileKey(logfile.rows[k])

\* C5: no run is aborted, whatever the requests were answered with and
\* whether or not a log exists.
C5_RunNeverAborted == pc # "aborted"

\* C6: the requests of a run are the configured targets, one each, in
\* configuration order, whatever the earlier requests were answered with.
C6_EachTargetOnce ==
    /\ Len(responses) = i - 1
    /\ Len(responses) <= Len(CITIES)
    /\ \A k \in 1..Len(responses) : responses[k].target = CITIES[k]
    /\ pc # "fetch" => Len(responses) = Len(CITIES)

C6_Witness ==
    /\ pc = "log"
    /\ Len(CITIES) = 2
    /\ responses[1].js = FetchError
    /\ responses[2].js.status = "ok"
    /\ Len(records) = 1

\* C7: the snapshot of a run holds one row for each target answered with
\* status "ok" in that run, and nothing else.
OkResponses == {k \in 1..Len(responses) : responses[k].js.status = "ok"}

C7_SnapshotOneRowPerOk ==
    pc \in {"log", "urls", "done", "aborted"} =>
        /\ Len(latest.rows) = Cardinality(OkResponses)
        /\ latest.rows = to_csv(df).rows

\* C8: aqi_band gives the band of the table, upper edges inclusive, and the
\* severity of the band never decreases as the index value increases.
BandOf(x) ==
    CASE isna(x) -> << "Unknown", "n/a" >>
      [] notna(x) /\ x.v <= 50 -> << "Good", "0-50" >>
      [] notna(x) /\ 50 < x.v /\ x.v <= 100 -> << "Moderate", "51-100" >>
      [] notna(x) /\ 100 < x.v /\ x.v <= 150 ->
             << "Unhealthy for Sensitive Groups", "101-150" >>
      [] notna(x) /\ 150 < x.v /\ x.v <= 200 -> << "Unhealthy", "151-200" >>
      [] notna(x) /\ 200 < x.v /\ x.v <= 300 -> << "Very Unhealthy", "201-300" >>
      [] notna(x) /\ 300 < x.v -> << "Hazardous", "300+" >>

Severity(band) ==
    CASE band[1] = "Good" -> 1
      [] band[1] = "Moderate" -> 2
      [] band[1] = "Unhealthy for Sensitive Groups" -> 3
      [] band[1] = "Unhealthy" -> 4
      [] band[1] = "Very Unhealthy" -> 5
      [] band[1] = "Hazardous" -> 6
      [] OTHER -> 0

C8_BandTable ==
    band_out # << >> =>
        /\ band_out = BandOf(band_in)
        /\ notna(band_in) =>
               \A x \in (0 - MaxIndex)..MaxIndex :
                   x <= band_in.v => Severity(aqi_band(Num(x))) <= Severity(band_out)

C8_Witness ==
    /\ band_in = Num(150)
    /\ band_out = << "Unhealthy for Sensitive Groups", "101-150" >>

\* C9: every row of the snapshot and of the log carries the category and
\* the range aqi_band gives for the row's own index value.
RowBandOk(r) == << r.aqi_category, r.aqi_range >> = aqi_band(num_read_csv(r.aqi))

C9_CategoryMatchesIndex ==
    /\ \A k \in 1..Len(latest.rows) : RowBandOk(latest.rows[k])
    /\ \A k \in 1..Len(logfile.rows) : RowBandOk(logfile.rows[k])

\* C10: every record of the batch has a latitude and a longitude; each is
\* the one the API reported when it reported one, and the configured
\* target's otherwise.
Produced == {k \in 1..Len(responses) :
                responses[k].js.status = "ok" /\ ~normalize_raises(responses[k].js)}
ProducedBefore(k) == Cardinality({j \in Produced : j < k})
Reported(js, c) == Len(js.geo) = 2 /\ js.geo[c].kind = "num"

C10_Coordinates ==
    /\ Len(records) = Cardinality(Produced)
    /\ \A k \in Produced :
         LET rec == records[ProducedBefore(k) + 1]
             js == responses[k].js
             t == responses[k].target
         IN /\ rec.lat.kind = "num" /\ rec.lon.kind = "num"
            /\ rec.lat = IF Reported(js, 1) THEN js.geo[1] ELSE Num(t.lat)
            /\ rec.lon = IF Reported(js, 2) THEN js.geo[2] ELSE Num(t.lon)

C10_Witness ==
    \E k \in Produced :
        /\ responses[k].js.geo = << None, Num(11582) >>
        /\ records[ProducedBefore(k) + 1].lat = Num(responses[k].target.lat)
        /\ records[ProducedBefore(k) + 1].lon = Num(11582)

\* The URL of the k-th request of the run.
RequestUrl(k) == fetch_url(responses[k].target.lat, responses[k].target.lon)
Fetched == {k \in 1..Len(responses) : responses[k].js # FetchError}

RECURSIVE UrlsOf(_, _)
UrlsOf(ks, k) ==
    IF k > Len(responses) THEN << >>
    ELSE IF k \in ks THEN << RequestUrl(k) >> \o UrlsOf(ks, k + 1)
    ELSE UrlsOf(ks, k + 1)

\* C11 as stated: the provenance record a run writes lists the URL of every
\* request attempted in the run, failed fetches included, in request order.
C11_EveryAttemptedUrl ==
    pc = "done" => last_urls.lines = UrlsOf(1..Len(responses), 1)

\* C11 amended: the provenance record a run writes lists, in request order,
\* the URL of every request of the run whose fetch returned a response
\* (dropped by normalisation or not), and nothing else; a request whose
\* fetch failed leaves no line, and nothing of earlier runs remains.
C11_FetchedUrls ==
    pc = "done" => last_urls.lines = UrlsOf(Fetched, 1)

C11_Witness ==
    /\ pc = "done"
    /\ runs > 1
    /\ Len(responses) = 2
    /\ responses[1].js = FetchError
    /\ responses[2].js.status = "ok"
    /\ Len(records) = 1
    /\ last_urls.lines = << RequestUrl(2) >>

\* The pipeline's merge step has read a log that cannot be read, and the
\* run has ended there.
MergeReadFatal == pc = "aborted" /\ logfile.exists /\ read_csv_raises(logfile)

\* The dashboard's part of C12: a failed read of the log leaves the script
\* running with no history, a failed read of the snapshot stops it.
C12_Dashboard ==
    /\ app.log.warning => (~app.stopped /\ app.log.df = "None")
    /\ app.latest = "read failed" => app.stopped

\* C12: a failed read of the log never ends the step that reads it, in the
\* pipeline's merge step and in the dashboard's loader alike, whatever an
\* earlier run left in the file; a failed read of the snapshot stops the
\* dashboard.
C12_LogReadNeverFatal ==
    /\ ~MergeReadFatal
    /\ C12_Dashboard

\* The rows of a file that belong to a city and carry no timestamp, and the
\* batch records of a city whose timestamp is the invalid marker.
InvalidRows(f, city) ==
    {k \in 1..Len(f.rows) : f.rows[k].city = city /\ f.rows[k].observed_at_utc = ""}
InvalidRecords(city) ==
    {k \in 1..Len(records) :
        text_to_csv(records[k].city) = city /\ records[k].observed_at_utc = NaT}
Unparsable == {k \in Produced : to_datetime(responses[k].js.ts) = NaT}

\* C13: a response with status "ok" and an unparsable timestamp yields a
\* record carrying the invalid marker, and a merge keeps every such record
\* beside the invalid-timestamp rows the log already held for its city.
C13_InvalidNotDeduplicated ==
    /\ \A k \in Unparsable : records[ProducedBefore(k) + 1].observed_at_utc = NaT
    /\ Merged =>
         \A city \in {text_to_csv(records[k].city) : k \in 1..Len(records)} :
             Cardinality(InvalidRows(logfile, city)) =
                 Cardinality(InvalidRows(old_log, city)) + Cardinality(InvalidRecords(city))

====
